---- MODULE Spec2Model ----
(***************************************************************************)
(* A model of easyeda2kicad/easyeda/parameters_easyeda.py: the typed       *)
(* symbol and footprint records, the pre-validators that coerce raw field  *)
(* values before construction, and the unit conversion of the footprint    *)
(* family (convert_to_mm and the per-entity mutators).                     *)
(*                                                                         *)
(* Python floats are IEEE-754 binary64 values.  A finite double is the     *)
(* record [s, m, e] standing for (-1)^s * m * 2^e, with the 53-bit         *)
(* significand m held as five 11-bit limbs, least significant first, and   *)
(* normalised so that 2^52 <= m < 2^53 (or m = 0, e = 0).  Products are    *)
(* computed exactly and rounded to nearest, ties to even, as the hardware  *)
(* does.  The inputs of the model keep every exponent far from the         *)
(* overflow and subnormal ranges, which are not modelled.                  *)
(***************************************************************************)
EXTENDS Integers, Sequences, FiniteSets, TLC

\* ------------------------------------------------------------------------
\* Bounds of the model
\* ------------------------------------------------------------------------
\* Largest magnitude of an integer handed to the scalar convert_to_mm.
MaxDim == 60
\* How many repeated invocations of a mutator (beyond the first one of each
\* entity) a behaviour of the footprint specification may hold.
MaxRepeats == 1

\* ------------------------------------------------------------------------
\* binary64 arithmetic
\* ------------------------------------------------------------------------
LimbBits == 11
NumLimbs == 5
Precision == 53
LimbBase == 2 ^ LimbBits

Limb(n, i) == IF i \in 1..Len(n) THEN n[i] ELSE 0

RECURSIVE BitLenInt(_)
BitLenInt(x) == IF x = 0 THEN 0 ELSE 1 + BitLenInt(x \div 2)

RECURSIVE TopLimb(_, _)
TopLimb(n, i) == IF i = 0 THEN 0 ELSE IF n[i] # 0 THEN i ELSE TopLimb(n, i - 1)

\* Number of significant bits of the natural number held in the limbs n.
BitLen(n) ==
    LET t == TopLimb(n, Len(n))
    IN  IF t = 0 THEN 0 ELSE LimbBits * (t - 1) + BitLenInt(n[t])

\* Bit j (j = 0 is the least significant) of n; bits below 0 are 0.
Bit(n, j) ==
    IF j < 0 THEN 0
    ELSE (Limb(n, (j \div LimbBits) + 1) \div (2 ^ (j % LimbBits))) % 2

\* Carry propagation over column sums c, from column i with carry cin.
RECURSIVE Carry(_, _, _)
Carry(c, i, cin) ==
    IF i > Len(c)
    THEN IF cin = 0 THEN << >> ELSE <<cin % LimbBase>> \o Carry(c, i, cin \div LimbBase)
    ELSE <<(c[i] + cin) % LimbBase>> \o Carry(c, i + 1, (c[i] + cin) \div LimbBase)

RECURSIVE ColSum(_, _, _, _)
ColSum(a, b, n, i) ==
    IF i > Len(a) THEN 0
    ELSE a[i] * Limb(b, n + 1 - i) + ColSum(a, b, n, i + 1)

\* Exact product of two naturals held in limbs.
MulNat(a, b) ==
    Carry([n \in 1..(Len(a) + Len(b) - 1) |-> ColSum(a, b, n, 1)], 1, 0)

\* The NumLimbs limbs of floor(n / 2^sh); sh < 0 shifts to the left.
Shift(n, sh) ==
    LET q == sh \div LimbBits
        r == sh % LimbBits
    IN  [i \in 1..NumLimbs |->
            (Limb(n, i + q) \div (2 ^ r))
            + (Limb(n, i + q + 1) % (2 ^ r)) * (2 ^ (LimbBits - r))]

ZeroMant == [i \in 1..NumLimbs |-> 0]

Inc(n) == Carry([n EXCEPT ![1] = @ + 1], 1, 0)

\* The double nearest to (-1)^s * n * 2^e, ties to even.
Round(s, n, e) ==
    LET len == BitLen(n)
        sh == len - Precision
        q == Shift(n, sh)
        guard == Bit(n, sh - 1)
        sticky == \E j \in 0..(sh - 2) : Bit(n, j) = 1
        up == guard = 1 /\ (sticky \/ Bit(n, sh) = 1)
        q1 == Inc(q)
    IN  IF len = 0 THEN [s |-> s, m |-> ZeroMant, e |-> 0]
        ELSE IF ~up THEN [s |-> s, m |-> q, e |-> e + sh]
        ELSE IF BitLen(q1) > Precision
             THEN [s |-> s, m |-> Shift(q1, 1), e |-> e + sh + 1]
             ELSE [s |-> s, m |-> Shift(q1, 0), e |-> e + sh]

\* float(n) of a Python int n (exact for |n| < 2^53).
FromInt(n) ==
    LET a == IF n < 0 THEN -n ELSE n
    IN  Round(IF n < 0 THEN 1 ELSE 0, <<a % LimbBase, a \div LimbBase>>, 0)

\* a * b on doubles.
FMul(a, b) == Round((a.s + b.s) % 2, MulNat(a.m, b.m), a.e + b.e)

IsZero(a) == a.m = ZeroMant

\* int(a) of a double whose magnitude is below LimbBase^2: truncation to 0.
Trunc(a) ==
    LET q == Shift(a.m, -a.e)
        v == q[1] + LimbBase * q[2]
    IN  IF IsZero(a) THEN 0 ELSE IF a.s = 1 THEN -v ELSE v

\* ------------------------------------------------------------------------
\* Python values.  Every value is a record of one shape, so that any two
\* can be compared: t is the type tag, and only the field of that type is
\* meaningful (b: bool, n: int, f: float, s: str as a sequence of
\* characters).  "error" stands for a raised exception.
\* ------------------------------------------------------------------------
PosZero == [s |-> 0, m |-> ZeroMant, e |-> 0]
PyNone == [t |-> "none", b |-> FALSE, n |-> 0, f |-> PosZero, s |-> << >>]
PyError == [t |-> "error", b |-> FALSE, n |-> 0, f |-> PosZero, s |-> << >>]
PyBool(b) == [PyNone EXCEPT !.t = "bool", !.b = b]
PyInt(n) == [PyNone EXCEPT !.t = "int", !.n = n]
PyFloat(f) == [PyNone EXCEPT !.t = "float", !.f = f]
PyStr(s) == [PyNone EXCEPT !.t = "str", !.s = s]

\* float(v) of a Python int or float.
ToFloat(v) == IF v.t = "int" THEN FromInt(v.n) ELSE v.f

\* Python truthiness, and `v or d`.
Truthy(v) ==
    CASE v.t = "bool" -> v.b
      [] v.t = "int" -> v.n # 0
      [] v.t = "float" -> ~IsZero(v.f)
      [] v.t = "str" -> v.s # << >>
      [] OTHER -> FALSE

Or(v, d) == IF Truthy(v) THEN v ELSE d

\* v == "<s>" for a str literal: no value of another type equals a str.
EqStr(v, s) == v.t = "str" /\ v.s = s

\* sub in s
Contains(s, sub) ==
    \E i \in 1..(Len(s) - Len(sub) + 1) : SubSeq(s, i, i + Len(sub) - 1) = sub

\* s.replace(sub, ""), sub not empty
RECURSIVE Remove(_, _)
Remove(s, sub) ==
    IF Len(s) < Len(sub) THEN s
    ELSE IF SubSeq(s, 1, Len(sub)) = sub
         THEN Remove(SubSeq(s, Len(sub) + 1, Len(s)), sub)
         ELSE <<Head(s)>> \o Remove(Tail(s), sub)

Digits == <<"0", "1", "2", "3", "4", "5", "6", "7", "8", "9">>
IsDigit(c) == \E d \in 1..Len(Digits) : Digits[d] = c
DigitOf(c) == (CHOOSE d \in 1..Len(Digits) : Digits[d] = c) - 1

RECURSIVE DecVal(_)
DecVal(s) == IF s = << >> THEN 0 ELSE 10 * DecVal(SubSeq(s, 1, Len(s) - 1)) + DigitOf(s[Len(s)])

RECURSIVE DecStr(_)
DecStr(n) == IF n < 10 THEN <<Digits[n + 1]>> ELSE DecStr(n \div 10) \o <<Digits[(n % 10) + 1]>>

AllDigits(s) == s # << >> /\ \A i \in 1..Len(s) : IsDigit(s[i])

\* float(s) and int(s) of a str.  The strings of the model are written with
\* digits and lower-case letters only, where both accept exactly the
\* non-empty digit strings and raise ValueError on anything else.
FloatOfStr(s) == IF AllDigits(s) THEN PyFloat(FromInt(DecVal(s))) ELSE PyError
IntOfStr(s) == IF AllDigits(s) THEN PyInt(DecVal(s)) ELSE PyError

\* str(n) of an int, and str(f) of a float that holds an integer.
StrOfInt(n) == IF n < 0 THEN <<"-">> \o DecStr(-n) ELSE DecStr(n)
StrOfFloat(f) ==
    (IF f.s = 1 THEN <<"-">> ELSE << >>)
    \o DecStr(IF Trunc(f) < 0 THEN -Trunc(f) ELSE Trunc(f)) \o <<".", "0">>

\* The literal 0.0254 of the source: 7321051554253478 * 2^-58.
Lit_0_0254 == [s |-> 0, m |-> <<678, 193, 1173, 314, 416>>, e |-> -58]

\* ------------------------------------------------------------------------
\* Unit conversion
\* ------------------------------------------------------------------------
convert_to_mm_no_scale(dim) == PyFloat(FMul(ToFloat(dim), Lit_0_0254))
\* def convert_to_mm(dim): return float(dim) * 10 * 0.0254
convert_to_mm(dim) ==
    PyFloat(FMul(FMul(ToFloat(dim), FromInt(10)), Lit_0_0254))

VARIABLES
    dim,          \* the argument of a call of the scalar convert_to_mm
    mm,           \* that call's result, once it has returned
    footprint,    \* one ee_footprint aggregate
    constructed,  \* the aggregate as it was constructed (history)
    calls,        \* how often each entity's convert_to_mm has been invoked
    built         \* the record most recently constructed from raw field values

vars == <<dim, mm, footprint, constructed, calls, built>>

NoResult == [done |-> FALSE, v |-> PyNone]
NoFootprint == << >>
IdleScalar == dim = PyNone /\ mm = NoResult
IdleFootprint == footprint = NoFootprint /\ constructed = NoFootprint /\ calls = << >>
NoEntity == [kind |-> "none", raw |-> << >>, pre |-> << >>, val |-> << >>, ok |-> FALSE]
IdleBuild == built = NoEntity

\* ------------------------------------------------------------------------
\* Footprint entities and their mutators
\* ------------------------------------------------------------------------
\* def convert_to_mm(self) of EeFootprintBbox
EeFootprintBbox_convert_to_mm(self) ==
    [self EXCEPT !.x = convert_to_mm(self.x),
                 !.y = convert_to_mm(self.y)]

EeFootprintPad_convert_to_mm_no_hole_length(self) ==
    [self EXCEPT !.center_x = convert_to_mm(self.center_x),
                 !.center_y = convert_to_mm(self.center_y),
                 !.width = convert_to_mm(self.width),
                 !.height = convert_to_mm(self.height),
                 !.hole_radius = convert_to_mm(self.hole_radius)]
\* def convert_to_mm(self) of EeFootprintPad
EeFootprintPad_convert_to_mm(self) ==
    [self EXCEPT !.center_x = convert_to_mm(self.center_x),
                 !.center_y = convert_to_mm(self.center_y),
                 !.width = convert_to_mm(self.width),
                 !.height = convert_to_mm(self.height),
                 !.hole_radius = convert_to_mm(self.hole_radius),
                 !.hole_length = convert_to_mm(self.hole_length)]

\* def convert_to_mm(self) of EeFootprintTrack
EeFootprintTrack_convert_to_mm(self) ==
    [self EXCEPT !.stroke_width = convert_to_mm(self.stroke_width)]

\* def convert_to_mm(self) of EeFootprintHole
EeFootprintHole_convert_to_mm(self) ==
    [self EXCEPT !.center_x = convert_to_mm(self.center_x),
                 !.center_y = convert_to_mm(self.center_y),
                 !.radius = convert_to_mm(self.radius)]

\* def convert_to_mm(self) of EeFootprintCircle
EeFootprintCircle_convert_to_mm(self) ==
    [self EXCEPT !.cx = convert_to_mm(self.cx),
                 !.cy = convert_to_mm(self.cy),
                 !.radius = convert_to_mm(self.radius),
                 !.stroke_width = convert_to_mm(self.stroke_width)]

\* def convert_to_mm(self) of EeFootprintRectangle: stroke_width is not touched
EeFootprintRectangle_convert_to_mm(self) ==
    [self EXCEPT !.x = convert_to_mm(self.x),
                 !.y = convert_to_mm(self.y),
                 !.width = convert_to_mm(self.width),
                 !.height = convert_to_mm(self.height)]

\* def convert_to_mm(self) of EeFootprintText
EeFootprintText_convert_to_mm(self) ==
    [self EXCEPT !.center_x = convert_to_mm(self.center_x),
                 !.center_y = convert_to_mm(self.center_y),
                 !.stroke_width = convert_to_mm(self.stroke_width),
                 !.font_size = convert_to_mm(self.font_size)]

Ee3dModelBase_convert_to_mm_with_z(self) ==
    [self EXCEPT !.x = convert_to_mm(self.x),
                 !.y = convert_to_mm(self.y),
                 !.z = convert_to_mm(self.z)]
\* def convert_to_mm(self) of Ee3dModelBase: z is left as it is
Ee3dModelBase_convert_to_mm(self) ==
    [self EXCEPT !.x = convert_to_mm(self.x),
                 !.y = convert_to_mm(self.y)]

\* def convert_to_mm(self) of Ee3dModel: self.translation.convert_to_mm()
Ee3dModel_convert_to_mm(self) ==
    [self EXCEPT !.translation = Ee3dModelBase_convert_to_mm(self.translation)]

\* A Python float holding the integer n.
F(n) == PyFloat(FromInt(n))

\* The raw numbers two footprints are constructed from: the first holds the
\* values of the documented scenarios, the second values whose conversion is
\* not the double nearest to 0.254 times the value.
RawFootprints ==
    { [bbox |-> <<100, 50>>, pad |-> <<100, 100, 10, 10, 0, 0>>, pad_rot |-> 90,
       track |-> 1, hole |-> <<5, 5, 2>>, circle |-> <<10, 20, 3, 1>>,
       rect |-> <<10, 20, 30, 40, 1>>, arc |-> 1, text |-> <<10, 20, 1, 7>>,
       text_rot |-> 0, tr |-> <<10, 20, 30>>, rot |-> <<0, 0, 90>>],
      [bbox |-> <<19, 23>>, pad |-> <<19, 23, 27, 31, 35, 38>>, pad_rot |-> 45,
       track |-> 39, hole |-> <<43, 46, 47>>, circle |-> <<51, 54, 55, 59>>,
       rect |-> <<62, 65, 70, 73, 76>>, arc |-> 78, text |-> <<81, 86, 89, 92>>,
       text_rot |-> 180, tr |-> <<94, 97, 99>>, rot |-> <<19, 23, 27>>] }

Id(c) == PyStr(<<"g", "g", "e", c>>)

\* The ee_footprint built from the raw numbers r: every float field holds
\* the float of its raw number, in native units, and every list one entity.
NewFootprint(r) ==
    [ info |-> [name |-> PyStr(<<"R">>), fp_type |-> PyStr(<<"s", "m", "d">>),
                model_3d_name |-> PyStr(<<"R">>)],
      bbox |-> [x |-> F(r.bbox[1]), y |-> F(r.bbox[2])],
      model_3d |->
        [name |-> PyStr(<<"R">>), uuid |-> PyStr(<<"u">>),
         translation |-> [x |-> F(r.tr[1]), y |-> F(r.tr[2]), z |-> F(r.tr[3])],
         rotation |-> [x |-> F(r.rot[1]), y |-> F(r.rot[2]), z |-> F(r.rot[3])],
         raw_obj |-> PyNone],
      pads |-> <<
        [shape |-> PyStr(<<"R", "E", "C", "T">>), center_x |-> F(r.pad[1]),
         center_y |-> F(r.pad[2]), width |-> F(r.pad[3]), height |-> F(r.pad[4]),
         layer_id |-> PyInt(1), net |-> PyStr(<<>>), number |-> PyStr(<<"1">>),
         hole_radius |-> F(r.pad[5]), points |-> PyStr(<<>>),
         rotation |-> F(r.pad_rot), id |-> Id("1"), hole_length |-> F(r.pad[6]),
         hole_point |-> PyStr(<<>>), is_plated |-> PyBool(TRUE),
         is_locked |-> PyBool(FALSE)] >>,
      tracks |-> <<
        [stroke_width |-> F(r.track), layer_id |-> PyInt(3), net |-> PyStr(<<>>),
         points |-> PyStr(<<"0", " ", "0">>), id |-> Id("2"),
         is_locked |-> PyBool(FALSE)] >>,
      holes |-> <<
        [center_x |-> F(r.hole[1]), center_y |-> F(r.hole[2]),
         radius |-> F(r.hole[3]), id |-> Id("3"), is_locked |-> PyBool(FALSE)] >>,
      circles |-> <<
        [cx |-> F(r.circle[1]), cy |-> F(r.circle[2]), radius |-> F(r.circle[3]),
         stroke_width |-> F(r.circle[4]), layer_id |-> PyInt(3), id |-> Id("4"),
         is_locked |-> PyBool(FALSE)] >>,
      arcs |-> <<
        [stroke_width |-> F(r.arc), layer_id |-> PyInt(3), net |-> PyStr(<<>>),
         path |-> PyStr(<<"M">>), helper_dots |-> PyStr(<<>>), id |-> Id("5"),
         is_locked |-> PyBool(FALSE)] >>,
      rectangles |-> <<
        [x |-> F(r.rect[1]), y |-> F(r.rect[2]), width |-> F(r.rect[3]),
         height |-> F(r.rect[4]), stroke_width |-> F(r.rect[5]), id |-> Id("6"),
         layer_id |-> PyInt(3), is_locked |-> PyBool(FALSE)] >>,
      texts |-> <<
        [type |-> PyStr(<<"L">>), center_x |-> F(r.text[1]),
         center_y |-> F(r.text[2]), stroke_width |-> F(r.text[3]),
         rotation |-> PyInt(r.text_rot), miror |-> PyStr(<<>>),
         layer_id |-> PyInt(3), net |-> PyStr(<<>>), font_size |-> F(r.text[4]),
         text |-> PyStr(<<"R">>), text_path |-> PyStr(<<"M">>),
         is_displayed |-> PyBool(TRUE), id |-> Id("7"),
         is_locked |-> PyBool(FALSE)] >> ]

\* The entities that offer convert_to_mm (EeFootprintArc offers none).
Mutable ==
    {"bbox", "pads", "tracks", "holes", "circles", "rectangles", "texts", "model_3d"}

RECURSIVE SumRepeats(_)
SumRepeats(S) ==
    IF S = {} THEN 0
    ELSE LET k == CHOOSE k \in S : TRUE
         IN  (IF calls[k] > 1 THEN calls[k] - 1 ELSE 0) + SumRepeats(S \ {k})

\* The code sets no limit on the invocations; the model stops after
\* MaxRepeats invocations that repeat an earlier one.
MayInvoke(k) == calls[k] = 0 \/ SumRepeats(Mutable) < MaxRepeats

Init ==
    /\ IdleScalar
    /\ IdleBuild
    /\ \E r \in RawFootprints : footprint = NewFootprint(r)
    /\ constructed = footprint
    /\ calls = [k \in Mutable |-> 0]

Invoked(k) ==
    /\ MayInvoke(k)
    /\ calls' = [calls EXCEPT ![k] = @ + 1]
    /\ UNCHANGED <<dim, mm, constructed, built>>

ConvertBbox ==
    /\ Invoked("bbox")
    /\ footprint' = [footprint EXCEPT !.bbox = EeFootprintBbox_convert_to_mm(@)]

ConvertPad ==
    /\ Invoked("pads")
    /\ \E i \in DOMAIN footprint.pads :
         footprint' = [footprint EXCEPT !.pads[i] = EeFootprintPad_convert_to_mm(@)]

ConvertTrack ==
    /\ Invoked("tracks")
    /\ \E i \in DOMAIN footprint.tracks :
         footprint' = [footprint EXCEPT !.tracks[i] = EeFootprintTrack_convert_to_mm(@)]

ConvertHole ==
    /\ Invoked("holes")
    /\ \E i \in DOMAIN footprint.holes :
         footprint' = [footprint EXCEPT !.holes[i] = EeFootprintHole_convert_to_mm(@)]

ConvertCircle ==
    /\ Invoked("circles")
    /\ \E i \in DOMAIN footprint.circles :
         footprint' = [footprint EXCEPT !.circles[i] = EeFootprintCircle_convert_to_mm(@)]

ConvertRectangle ==
    /\ Invoked("rectangles")
    /\ \E i \in DOMAIN footprint.rectangles :
         footprint' =
           [footprint EXCEPT !.rectangles[i] = EeFootprintRectangle_convert_to_mm(@)]

ConvertText ==
    /\ Invoked("texts")
    /\ \E i \in DOMAIN footprint.texts :
         footprint' = [footprint EXCEPT !.texts[i] = EeFootprintText_convert_to_mm(@)]

ConvertModel3d ==
    /\ Invoked("model_3d")
    /\ footprint' = [footprint EXCEPT !.model_3d = Ee3dModel_convert_to_mm(@)]

Next ==
    \/ ConvertBbox
    \/ ConvertPad
    \/ ConvertTrack
    \/ ConvertHole
    \/ ConvertCircle
    \/ ConvertRectangle
    \/ ConvertText
    \/ ConvertModel3d

Spec == Init /\ [][Next]_vars

\* ------------------------------------------------------------------------
\* The scalar function on its own: called once on an int, or on a float
\* that holds an integer (-0.0 included)
\* ------------------------------------------------------------------------
ScalarInputs ==
    {PyInt(n) : n \in (-MaxDim)..MaxDim}
    \cup {PyFloat(FromInt(n)) : n \in {-1, 0, 19}}
    \cup {PyFloat([PosZero EXCEPT !.s = 1])}

ScalarInit == dim \in ScalarInputs /\ mm = NoResult /\ IdleFootprint /\ IdleBuild

ScalarCall ==
    /\ ~mm.done
    /\ mm' = [done |-> TRUE, v |-> convert_to_mm(dim)]
    /\ UNCHANGED <<dim, footprint, constructed, calls, built>>

ScalarNext == ScalarCall

SpecScalar == ScalarInit /\ [][ScalarNext]_vars
\* ------------------------------------------------------------------------
\* Field coercion: the validators that run before a field is type-checked
\* ------------------------------------------------------------------------
Show == <<"s", "h", "o", "w">>
Pt == <<"p", "t">>
Empty == << >>

\* class EasyedaPinType(Enum)
EasyedaPinType ==
    { [name |-> <<"u", "n", "s", "p", "e", "c", "i", "f", "i", "e", "d">>, value |-> 0],
      [name |-> <<"i", "n", "p", "u", "t">>, value |-> 1],
      [name |-> <<"o", "u", "t", "p", "u", "t">>, value |-> 2],
      [name |-> <<"b", "i", "d", "i", "r", "e", "c", "t", "i", "o", "n", "a", "l">>,
       value |-> 3],
      [name |-> <<"p", "o", "w", "e", "r">>, value |-> 4] }

\* EeSymbolPinSettings
EeSymbolPinSettings_parse_display_field(field) ==
    IF EqStr(field, Show) THEN PyBool(TRUE) ELSE field
EeSymbolPinSettings_empty_str_lock(is_locked) == Or(is_locked, PyBool(FALSE))
EeSymbolPinSettings_empty_str_rotation(rotation) == Or(rotation, PyFloat(PosZero))

\* EeSymbolPinName
EeSymbolPinName_empty_str_font(font_size) ==
    IF font_size.t = "str" /\ Contains(font_size.s, Pt)
    THEN FloatOfStr(Remove(font_size.s, Pt))
    ELSE Or(font_size, PyFloat(FromInt(7)))
EeSymbolPinName_parse_display_field(field) ==
    IF EqStr(field, Show) THEN PyBool(TRUE) ELSE field
EeSymbolPinName_empty_str_rotation(rotation) == Or(rotation, PyFloat(PosZero))

\* EeSymbolPinDotBis, EeSymbolPinClock
EeSymbolPinDotBis_parse_display_field(field) ==
    IF EqStr(field, Show) THEN PyBool(TRUE) ELSE field
EeSymbolPinClock_parse_display_field(field) ==
    IF EqStr(field, Show) THEN PyBool(TRUE) ELSE field

\* EeSymbolRectangle: @validator("*", pre=True)
EeSymbolRectangle_keep(field) == field
EeSymbolRectangle_empty_str_to_none(field) == Or(field, PyNone)

\* EeSymbolPolyline (EeSymbolPolygon inherits it), EeSymbolPath
EeSymbolPolyline_empty_str_lock(field) == Or(field, PyBool(FALSE))
EeSymbolPath_empty_str_lock(field) == Or(field, PyBool(FALSE))

\* EeFootprintPad, EeFootprintTrack, EeFootprintHole, EeFootprintCircle
EeFootprintPad_empty_str_lock(field) == Or(field, PyBool(FALSE))
EeFootprintPad_empty_str_rotation(field) == Or(field, PyFloat(PosZero))
EeFootprintTrack_empty_str_lock(field) == Or(field, PyBool(FALSE))
EeFootprintHole_empty_str_lock(field) == Or(field, PyBool(FALSE))
EeFootprintCircle_empty_str_lock(field) == Or(field, PyBool(FALSE))

\* EeFootprintRectangle, EeFootprintArc
EeFootprintRectangle_empty_str_lock(field) ==
    IF EqStr(field, Empty) THEN PyBool(FALSE) ELSE field
EeFootprintArc_empty_str_lock(field) ==
    IF EqStr(field, Empty) THEN PyBool(FALSE) ELSE field

\* EeFootprintText
EeFootprintText_show_display(field) ==
    IF EqStr(field, Show) THEN PyBool(TRUE) ELSE field
EeFootprintText_empty_str_display(field) ==
    IF EqStr(field, Empty) THEN PyBool(TRUE) ELSE field
EeFootprintText_empty_str_lock(field) ==
    IF EqStr(field, Empty) THEN PyBool(FALSE) ELSE field
EeFootprintText_empty_str_rotation(field) ==
    IF EqStr(field, Empty) THEN PyFloat(PosZero) ELSE field

\* ------------------------------------------------------------------------
\* The record classes: the declared type of every field
\* ------------------------------------------------------------------------
ShapeStyle ==
    [stroke_color |-> "str", stroke_width |-> "str", stroke_style |-> "str",
     fill_color |-> "str", id |-> "str", is_locked |-> "bool"]

FieldTypes(kind) ==
    CASE kind = "EeSymbolPinSettings" ->
           [is_displayed |-> "bool", type |-> "str", spice_pin_number |-> "str",
            pos_x |-> "float", pos_y |-> "float", rotation |-> "int",
            id |-> "str", is_locked |-> "bool"]
      [] kind = "EeSymbolPinName" ->
           [is_displayed |-> "bool", pos_x |-> "float", pos_y |-> "float",
            rotation |-> "int", text |-> "str", text_anchor |-> "str",
            font |-> "str", font_size |-> "float"]
      [] kind = "EeSymbolPinDotBis" ->
           [is_displayed |-> "bool", circle_x |-> "float", circle_y |-> "float"]
      [] kind = "EeSymbolPinClock" ->
           [is_displayed |-> "bool", path |-> "str"]
      [] kind = "EeSymbolRectangle" ->
           [pos_x |-> "float", pos_y |-> "float", rx |-> "float or None",
            ry |-> "float or None", width |-> "float", height |-> "float"]
           @@ ShapeStyle
      [] kind \in {"EeSymbolPolyline", "EeSymbolPolygon"} ->
           [points |-> "str"] @@ ShapeStyle
      [] kind = "EeSymbolPath" ->
           [paths |-> "str"] @@ ShapeStyle
      [] kind = "EeFootprintPad" ->
           [shape |-> "str", center_x |-> "float", center_y |-> "float",
            width |-> "float", height |-> "float", layer_id |-> "int",
            net |-> "str", number |-> "str", hole_radius |-> "float",
            points |-> "str", rotation |-> "float", id |-> "str",
            hole_length |-> "float", hole_point |-> "str", is_plated |-> "bool",
            is_locked |-> "bool"]
      [] kind = "EeFootprintTrack" ->
           [stroke_width |-> "float", layer_id |-> "int", net |-> "str",
            points |-> "str", id |-> "str", is_locked |-> "bool"]
      [] kind = "EeFootprintHole" ->
           [center_x |-> "float", center_y |-> "float", radius |-> "float",
            id |-> "str", is_locked |-> "bool"]
      [] kind = "EeFootprintCircle" ->
           [cx |-> "float", cy |-> "float", radius |-> "float",
            stroke_width |-> "float", layer_id |-> "int", id |-> "str",
            is_locked |-> "bool"]
      [] kind = "EeFootprintRectangle" ->
           [x |-> "float", y |-> "float", width |-> "float", height |-> "float",
            stroke_width |-> "float", id |-> "str", layer_id |-> "int",
            is_locked |-> "bool"]
      [] kind = "EeFootprintArc" ->
           [stroke_width |-> "float", layer_id |-> "int", net |-> "str",
            path |-> "str", helper_dots |-> "str", id |-> "str",
            is_locked |-> "bool"]
      [] kind = "EeFootprintText" ->
           [type |-> "str", center_x |-> "float", center_y |-> "float",
            stroke_width |-> "float", rotation |-> "int", miror |-> "str",
            layer_id |-> "int", net |-> "str", font_size |-> "float",
            text |-> "str", text_path |-> "str", is_displayed |-> "bool",
            id |-> "str", is_locked |-> "bool"]

\* The pre-validator of field f of class kind, applied to the raw value v.
PreValidate(kind, f, v) ==
    CASE kind = "EeSymbolPinSettings" /\ f = "is_displayed" ->
           EeSymbolPinSettings_parse_display_field(v)
      [] kind = "EeSymbolPinSettings" /\ f = "is_locked" ->
           EeSymbolPinSettings_empty_str_lock(v)
      [] kind = "EeSymbolPinSettings" /\ f = "rotation" ->
           EeSymbolPinSettings_empty_str_rotation(v)
      [] kind = "EeSymbolPinName" /\ f = "font_size" ->
           EeSymbolPinName_empty_str_font(v)
      [] kind = "EeSymbolPinName" /\ f = "is_displayed" ->
           EeSymbolPinName_parse_display_field(v)
      [] kind = "EeSymbolPinName" /\ f = "rotation" ->
           EeSymbolPinName_empty_str_rotation(v)
      [] kind = "EeSymbolPinDotBis" /\ f = "is_displayed" ->
           EeSymbolPinDotBis_parse_display_field(v)
      [] kind = "EeSymbolPinClock" /\ f = "is_displayed" ->
           EeSymbolPinClock_parse_display_field(v)
      [] kind = "EeSymbolRectangle" ->
           EeSymbolRectangle_empty_str_to_none(v)
      [] kind \in {"EeSymbolPolyline", "EeSymbolPolygon"} /\ f = "is_locked" ->
           EeSymbolPolyline_empty_str_lock(v)
      [] kind = "EeSymbolPath" /\ f = "is_locked" ->
           EeSymbolPath_empty_str_lock(v)
      [] kind = "EeFootprintPad" /\ f = "is_locked" ->
           EeFootprintPad_empty_str_lock(v)
      [] kind = "EeFootprintPad" /\ f = "rotation" ->
           EeFootprintPad_empty_str_rotation(v)
      [] kind = "EeFootprintTrack" /\ f = "is_locked" ->
           EeFootprintTrack_empty_str_lock(v)
      [] kind = "EeFootprintHole" /\ f = "is_locked" ->
           EeFootprintHole_empty_str_lock(v)
      [] kind = "EeFootprintCircle" /\ f = "is_locked" ->
           EeFootprintCircle_empty_str_lock(v)
      [] kind = "EeFootprintRectangle" /\ f = "is_locked" ->
           EeFootprintRectangle_empty_str_lock(v)
      [] kind = "EeFootprintArc" /\ f = "is_locked" ->
           EeFootprintArc_empty_str_lock(v)
      [] kind = "EeFootprintText" /\ f = "is_displayed" ->
           EeFootprintText_empty_str_display(v)
      [] kind = "EeFootprintText" /\ f = "is_locked" ->
           EeFootprintText_empty_str_lock(v)
      [] kind = "EeFootprintText" /\ f = "rotation" ->
           EeFootprintText_empty_str_rotation(v)
      [] OTHER -> v

\* ------------------------------------------------------------------------
\* Type validation of a field of a BaseModel class (pydantic, version 1)
\* ------------------------------------------------------------------------
BoolTrue == {<<"1">>, <<"o", "n">>, <<"t">>, <<"t", "r", "u", "e">>, <<"y">>,
             <<"y", "e", "s">>}
BoolFalse == {<<"0">>, <<"o", "f", "f">>, <<"f">>, <<"f", "a", "l", "s", "e">>,
              <<"n">>, <<"n", "o">>}

AsBool(v) ==
    CASE v.t = "bool" -> v
      [] v.t = "int" -> IF v.n \in {0, 1} THEN PyBool(v.n = 1) ELSE PyError
      [] v.t = "float" ->
           IF IsZero(v.f) THEN PyBool(FALSE)
           ELSE IF v.f = FromInt(1) THEN PyBool(TRUE) ELSE PyError
      [] v.t = "str" ->
           IF v.s \in BoolTrue THEN PyBool(TRUE)
           ELSE IF v.s \in BoolFalse THEN PyBool(FALSE) ELSE PyError
      [] OTHER -> PyError

AsFloat(v) ==
    CASE v.t = "float" -> v
      [] v.t = "int" -> PyFloat(FromInt(v.n))
      [] v.t = "bool" -> PyFloat(FromInt(IF v.b THEN 1 ELSE 0))
      [] v.t = "str" -> FloatOfStr(v.s)
      [] OTHER -> PyError

AsInt(v) ==
    CASE v.t = "int" -> v
      [] v.t = "bool" -> PyInt(IF v.b THEN 1 ELSE 0)
      [] v.t = "float" -> PyInt(Trunc(v.f))
      [] v.t = "str" -> IntOfStr(v.s)
      [] OTHER -> PyError

AsStr(v) ==
    CASE v.t = "str" -> v
      [] v.t = "int" -> PyStr(StrOfInt(v.n))
      [] v.t = "bool" ->
           PyStr(IF v.b THEN <<"T", "r", "u", "e">> ELSE <<"F", "a", "l", "s", "e">>)
      [] v.t = "float" -> PyStr(StrOfFloat(v.f))
      [] OTHER -> PyError

\* The value a field declared `type` holds for the pre-validated value v, or
\* the error that rejects the record: None is allowed only where declared.
Validate(type, v) ==
    CASE v.t = "error" -> PyError
      [] v.t = "none" -> IF type = "float or None" THEN PyNone ELSE PyError
      [] type = "bool" -> AsBool(v)
      [] type = "int" -> AsInt(v)
      [] type = "str" -> AsStr(v)
      [] OTHER -> AsFloat(v)

\* A raw value that a field of the type accepts as it is.
DefaultRaw(type) ==
    CASE type = "bool" -> PyBool(TRUE)
      [] type = "int" -> PyStr(<<"1">>)
      [] type = "str" -> PyStr(<<"a">>)
      [] OTHER -> PyStr(<<"1", "0">>)

\* The raw record of class kind in which the fields of `given` hold the given
\* raw values and every other field a value of its type.
RawRecord(kind, given) ==
    [f \in DOMAIN FieldTypes(kind) |->
        IF f \in DOMAIN given THEN given[f] ELSE DefaultRaw(FieldTypes(kind)[f])]

\* kind(**raw): every field pre-validated, then type-checked.
Construct(kind, raw) ==
    LET pre == [f \in DOMAIN raw |-> PreValidate(kind, f, raw[f])]
        val == [f \in DOMAIN raw |-> Validate(FieldTypes(kind)[f], pre[f])]
    IN  [kind |-> kind, raw |-> raw, pre |-> pre, val |-> val,
         ok |-> \A f \in DOMAIN raw : val[f].t # "error"]

\* The raw encodings a field arrives in.
RawValues ==
    { PyStr(Empty), PyStr(Show), PyStr(<<"1", "0", "p", "t">>), PyStr(<<"4", "5">>),
      PyStr(Pt), PyBool(TRUE), PyBool(FALSE), PyInt(0), PyInt(12),
      PyFloat(PosZero) }

\* The raw encodings of a font size: strings and numbers.
RawSizes == {v \in RawValues : v.t # "bool"}

\* The raw electrical type tags of a pin.
RawTypeTags ==
    { PyStr(<<"0">>), PyStr(<<"4">>), PyStr(<<"5">>), PyStr(<<"i", "n", "p", "u", "t">>),
      PyStr(<<"a", "n", "a", "l", "o", "g">>) }

Fresh == built = NoEntity
Others == <<dim, mm, footprint, constructed, calls>>

NewPinSettings ==
    /\ Fresh
    /\ \E d \in RawValues, l \in RawValues, r \in RawValues, t \in RawTypeTags :
         built' = Construct("EeSymbolPinSettings",
                            RawRecord("EeSymbolPinSettings",
                                      [is_displayed |-> d, is_locked |-> l, rotation |-> r, type |-> t]))
    /\ UNCHANGED Others

NewPinName ==
    /\ Fresh
    /\ \E d \in RawValues, s \in RawSizes, r \in RawValues :
         built' = Construct("EeSymbolPinName",
                            RawRecord("EeSymbolPinName",
                                      [is_displayed |-> d, font_size |-> s, rotation |-> r]))
    /\ UNCHANGED Others

NewPinDotBis ==
    /\ Fresh
    /\ \E d \in RawValues :
         built' = Construct("EeSymbolPinDotBis",
                            RawRecord("EeSymbolPinDotBis",
                                      [is_displayed |-> d]))
    /\ UNCHANGED Others

NewPinClock ==
    /\ Fresh
    /\ \E d \in RawValues :
         built' = Construct("EeSymbolPinClock",
                            RawRecord("EeSymbolPinClock",
                                      [is_displayed |-> d]))
    /\ UNCHANGED Others

NewSymbolRectangle ==
    /\ Fresh
    /\ \E f \in DOMAIN FieldTypes("EeSymbolRectangle"), v \in RawValues :
         built' = Construct("EeSymbolRectangle",
                            RawRecord("EeSymbolRectangle",
                                      [g \in {f} |-> v]))
    /\ UNCHANGED Others

NewPolyline ==
    /\ Fresh
    /\ \E l \in RawValues :
         built' = Construct("EeSymbolPolyline",
                            RawRecord("EeSymbolPolyline",
                                      [is_locked |-> l]))
    /\ UNCHANGED Others

NewPolygon ==
    /\ Fresh
    /\ \E l \in RawValues :
         built' = Construct("EeSymbolPolygon",
                            RawRecord("EeSymbolPolygon",
                                      [is_locked |-> l]))
    /\ UNCHANGED Others

NewPath ==
    /\ Fresh
    /\ \E l \in RawValues :
         built' = Construct("EeSymbolPath",
                            RawRecord("EeSymbolPath",
                                      [is_locked |-> l]))
    /\ UNCHANGED Others

NewPad ==
    /\ Fresh
    /\ \E l \in RawValues, r \in RawValues :
         built' = Construct("EeFootprintPad",
                            RawRecord("EeFootprintPad",
                                      [is_locked |-> l, rotation |-> r]))
    /\ UNCHANGED Others

NewTrack ==
    /\ Fresh
    /\ \E l \in RawValues :
         built' = Construct("EeFootprintTrack",
                            RawRecord("EeFootprintTrack",
                                      [is_locked |-> l]))
    /\ UNCHANGED Others

NewHole ==
    /\ Fresh
    /\ \E l \in RawValues :
         built' = Construct("EeFootprintHole",
                            RawRecord("EeFootprintHole",
                                      [is_locked |-> l]))
    /\ UNCHANGED Others

NewCircle ==
    /\ Fresh
    /\ \E l \in RawValues :
         built' = Construct("EeFootprintCircle",
                            RawRecord("EeFootprintCircle",
                                      [is_locked |-> l]))
    /\ UNCHANGED Others

NewFootprintRectangle ==
    /\ Fresh
    /\ \E l \in RawValues :
         built' = Construct("EeFootprintRectangle",
                            RawRecord("EeFootprintRectangle",
                                      [is_locked |-> l]))
    /\ UNCHANGED Others

NewArc ==
    /\ Fresh
    /\ \E l \in RawValues :
         built' = Construct("EeFootprintArc",
                            RawRecord("EeFootprintArc",
                                      [is_locked |-> l]))
    /\ UNCHANGED Others

NewText ==
    /\ Fresh
    /\ \E d \in RawValues, l \in RawValues, r \in RawValues :
         built' = Construct("EeFootprintText",
                            RawRecord("EeFootprintText",
                                      [is_displayed |-> d, is_locked |-> l, rotation |-> r]))
    /\ UNCHANGED Others

CoerceInit == IdleScalar /\ IdleFootprint /\ IdleBuild

CoerceNext ==
    \/ NewPinSettings
    \/ NewPinName
    \/ NewPinDotBis
    \/ NewPinClock
    \/ NewSymbolRectangle
    \/ NewPolyline
    \/ NewPolygon
    \/ NewPath
    \/ NewPad
    \/ NewTrack
    \/ NewHole
    \/ NewCircle
    \/ NewFootprintRectangle
    \/ NewArc
    \/ NewText

SpecCoerce == CoerceInit /\ [][CoerceNext]_vars

\* ========================================================================
\* The claims
\* ========================================================================
\* Decimal literals the claims name, as the doubles Python reads them as.
Lit_0_254 == [s |-> 0, m |-> <<1704, 376, 1245, 196, 260>>, e |-> -54]
Lit_2_54 == [s |-> 0, m |-> <<82, 983, 1556, 245, 325>>, e |-> -51]
Lit_5_08 == [s |-> 0, m |-> <<82, 983, 1556, 245, 325>>, e |-> -50]
Lit_25_4 == [s |-> 0, m |-> <<1638, 1228, 409, 819, 406>>, e |-> -48]

\* Successor of the magnitude of a finite double (the next double away from 0).
NextAway(a) ==
    LET m1 == Inc(a.m)
    IN  IF BitLen(m1) > Precision
        THEN [s |-> a.s, m |-> Shift(m1, 1), e |-> a.e + 1]
        ELSE [s |-> a.s, m |-> Shift(m1, 0), e |-> a.e]

\* a == b on floats: the two zeros are equal.
FEq(a, b) == a = b \/ (IsZero(a) /\ IsZero(b))

\* Every field of `fields` holds the conversion of its constructed value,
\* and every other field its constructed value.
ConvertedOnce(now, was, fields) ==
    \A f \in DOMAIN was :
        now[f] = IF f \in fields THEN convert_to_mm(was[f]) ELSE was[f]

PadLengths == {"center_x", "center_y", "width", "height", "hole_radius", "hole_length"}
TextLengths == {"center_x", "center_y", "stroke_width", "font_size"}

\* C1: after one or more invocations of an entity's convert_to_mm, every
\* length field of the entity holds its constructed value converted once,
\* never converted twice.
C1_RescaledAtMostOnce ==
    /\ calls["bbox"] >= 1 =>
         ConvertedOnce(footprint.bbox, constructed.bbox, {"x", "y"})
    /\ calls["pads"] >= 1 =>
         ConvertedOnce(footprint.pads[1], constructed.pads[1], PadLengths)
    /\ calls["tracks"] >= 1 =>
         ConvertedOnce(footprint.tracks[1], constructed.tracks[1], {"stroke_width"})
    /\ calls["holes"] >= 1 =>
         ConvertedOnce(footprint.holes[1], constructed.holes[1],
                       {"center_x", "center_y", "radius"})
    /\ calls["circles"] >= 1 =>
         ConvertedOnce(footprint.circles[1], constructed.circles[1],
                       {"cx", "cy", "radius", "stroke_width"})
    /\ calls["rectangles"] >= 1 =>
         ConvertedOnce(footprint.rectangles[1], constructed.rectangles[1],
                       {"x", "y", "width", "height"})
    /\ calls["texts"] >= 1 =>
         ConvertedOnce(footprint.texts[1], constructed.texts[1], TextLengths)
    /\ calls["model_3d"] >= 1 =>
         ConvertedOnce(footprint.model_3d.translation,
                       constructed.model_3d.translation, {"x", "y"})

\* C2 as stated: convert_to_mm(x) == x * 0.254 for every input x.
C2_EqualsTimes0254 ==
    mm.done => mm.v.t = "float" /\ FEq(mm.v.f, FMul(ToFloat(dim), Lit_0_254))

\* C2 as amended: convert_to_mm(x) is a float that is x * 0.254 (the rounded
\* product) or one of the two doubles next to it; it is a zero for x = 0,
\* has the sign of x, and is exactly 2.54, 5.08 and 25.4 for 10, 20 and 100.
C2_WithinOneUlp ==
    mm.done =>
        LET x == ToFloat(dim)
            r == mm.v.f
            p == FMul(x, Lit_0_254)
        IN  /\ mm.v.t = "float"
            /\ r.s = x.s
            /\ IsZero(x) => IsZero(r)
            /\ r = p \/ r = NextAway(p) \/ p = NextAway(r)
            /\ x = FromInt(10) => r = Lit_2_54
            /\ x = FromInt(20) => r = Lit_5_08
            /\ x = FromInt(100) => r = Lit_25_4

\* A call has returned for x = 19, where the result 4.826 is not 19 * 0.254.
C2_Witness ==
    /\ mm.done
    /\ dim = PyInt(19)
    /\ mm.v.f # FMul(ToFloat(dim), Lit_0_254)

\* C3: once convert_to_mm has been invoked once on every entity that offers
\* it, every length field of every sub-entity is in millimeters, the stroke
\* width of every track, circle, rectangle, arc and text included.
C3_AllLengthsInMm ==
    (\A k \in Mutable : calls[k] = 1) =>
        /\ ConvertedOnce(footprint.pads[1], constructed.pads[1], PadLengths)
        /\ ConvertedOnce(footprint.tracks[1], constructed.tracks[1], {"stroke_width"})
        /\ ConvertedOnce(footprint.holes[1], constructed.holes[1],
                         {"center_x", "center_y", "radius"})
        /\ ConvertedOnce(footprint.circles[1], constructed.circles[1],
                         {"cx", "cy", "radius", "stroke_width"})
        /\ ConvertedOnce(footprint.rectangles[1], constructed.rectangles[1],
                         {"x", "y", "width", "height", "stroke_width"})
        /\ ConvertedOnce(footprint.arcs[1], constructed.arcs[1], {"stroke_width"})
        /\ ConvertedOnce(footprint.texts[1], constructed.texts[1], TextLengths)

\* C4: one invocation of the pad's convert_to_mm converts exactly center_x,
\* center_y, width, height, hole_radius and hole_length and leaves every
\* other field of the pad as constructed; the pad 100, 100, 10, 10, 0, 0
\* becomes 25.4, 25.4, 2.54, 2.54, 0.0, 0.0.
C4_PadConversion ==
    calls["pads"] = 1 =>
        LET now == footprint.pads[1]
            was == constructed.pads[1]
        IN  /\ ConvertedOnce(now, was, PadLengths)
            /\ ( /\ was.center_x = F(100) /\ was.center_y = F(100)
                 /\ was.width = F(10) /\ was.height = F(10)
                 /\ was.hole_radius = F(0) /\ was.hole_length = F(0) )
               => /\ now.center_x = PyFloat(Lit_25_4)
                  /\ now.center_y = PyFloat(Lit_25_4)
                  /\ now.width = PyFloat(Lit_2_54)
                  /\ now.height = PyFloat(Lit_2_54)
                  /\ now.hole_radius = PyFloat(PosZero)
                  /\ now.hole_length = PyFloat(PosZero)

\* The pad of the documented scenario after one invocation.
C4_Witness ==
    /\ calls["pads"] = 1
    /\ constructed.pads[1].center_x = F(100)
    /\ constructed.pads[1].width = F(10)
    /\ footprint.pads[1].center_x = PyFloat(Lit_25_4)
    /\ footprint.pads[1].rotation = F(90)

\* C5: one invocation of the 3D model's convert_to_mm converts only x and y
\* of the translation; its z, the rotation, the name, the uuid and the raw
\* payload stay as constructed; the translation 10, 20, 30 becomes
\* 2.54, 5.08, 30.
C5_Model3dConversion ==
    calls["model_3d"] = 1 =>
        LET now == footprint.model_3d
            was == constructed.model_3d
        IN  /\ ConvertedOnce(now.translation, was.translation, {"x", "y"})
            /\ now.rotation = was.rotation
            /\ now.name = was.name
            /\ now.uuid = was.uuid
            /\ now.raw_obj = was.raw_obj
            /\ was.translation = [x |-> F(10), y |-> F(20), z |-> F(30)]
               => now.translation
                    = [x |-> PyFloat(Lit_2_54), y |-> PyFloat(Lit_5_08), z |-> F(30)]

\* The 3D model of the documented scenario after one invocation.
C5_Witness ==
    /\ calls["model_3d"] = 1
    /\ constructed.model_3d.translation.z = F(30)
    /\ footprint.model_3d.translation.x = PyFloat(Lit_2_54)
    /\ footprint.model_3d.translation.z = F(30)

PinDisplayKinds ==
    {"EeSymbolPinSettings", "EeSymbolPinName", "EeSymbolPinDotBis", "EeSymbolPinClock"}

\* "show" becomes true and "" stays "".
ShowRule(raw, out) ==
    /\ EqStr(raw, Show) => out = PyBool(TRUE)
    /\ EqStr(raw, Empty) => out = PyStr(Empty)

\* C6 as stated: for every class with a displayed flag, footprint text
\* included, the rule maps "show" to true and "" to "".
C6_DisplayedRuleEverywhere ==
    built.kind \in PinDisplayKinds \cup {"EeFootprintText"} =>
        ShowRule(built.raw.is_displayed, built.pre.is_displayed)

\* C6 as amended: the rule maps "show" to true and "" to "" for the four pin
\* classes; for footprint text it maps "" to true and passes "show" through.
C6_DisplayedRule ==
    /\ built.kind \in PinDisplayKinds =>
         ShowRule(built.raw.is_displayed, built.pre.is_displayed)
    /\ built.kind = "EeFootprintText" =>
         /\ EqStr(built.raw.is_displayed, Empty) => built.pre.is_displayed = PyBool(TRUE)
         /\ EqStr(built.raw.is_displayed, Show) => built.pre.is_displayed = PyStr(Show)

\* A footprint text built from an empty displayed flag.
C6_Witness ==
    /\ built.kind = "EeFootprintText"
    /\ EqStr(built.raw.is_displayed, Empty)
    /\ built.pre.is_displayed = PyBool(TRUE)

LockKinds ==
    {"EeSymbolPinSettings", "EeSymbolRectangle", "EeSymbolPolyline", "EeSymbolPolygon",
     "EeSymbolPath", "EeFootprintPad", "EeFootprintTrack", "EeFootprintHole",
     "EeFootprintCircle", "EeFootprintRectangle", "EeFootprintArc", "EeFootprintText"}

\* C7: for every class with a locked flag, the coercion of is_locked maps
\* "" to false, true to true and false to false.
C7_LockedRule ==
    built.kind \in LockKinds =>
        LET raw == built.raw.is_locked
            out == built.pre.is_locked
        IN  /\ EqStr(raw, Empty) => out = PyBool(FALSE)
            /\ raw = PyBool(TRUE) => out = PyBool(TRUE)
            /\ raw = PyBool(FALSE) => out = PyBool(FALSE)

\* C8 as stated: a symbol rectangle built with any field given as "" is
\* constructed, and that field holds None.
C8_BlankFieldBecomesNone ==
    built.kind = "EeSymbolRectangle" =>
        \A f \in DOMAIN built.raw :
            EqStr(built.raw[f], Empty) => built.ok /\ built.val[f] = PyNone

\* C8 as amended: the wildcard validator maps "" to None for every field of
\* the symbol rectangle; the rectangle is constructed holding None only
\* where the field is rx or ry, and is rejected for any other field.
C8_BlankFieldOfRectangle ==
    built.kind = "EeSymbolRectangle" =>
        \A f \in DOMAIN built.raw :
            EqStr(built.raw[f], Empty) =>
                /\ built.pre[f] = PyNone
                /\ IF f \in {"rx", "ry"}
                   THEN built.ok /\ built.val[f] = PyNone
                   ELSE ~built.ok /\ built.val[f] = PyError

\* A symbol rectangle whose numeric field pos_x was given as "".
C8_Witness ==
    /\ built.kind = "EeSymbolRectangle"
    /\ EqStr(built.raw.pos_x, Empty)
    /\ built.pre.pos_x = PyNone
    /\ ~built.ok

\* C9: the font size rule of the pin label maps "10pt" to 10.0 and "" to
\* 7.0, and passes every other raw value through unchanged.
C9_FontSizeRule ==
    built.kind = "EeSymbolPinName" =>
        LET raw == built.raw.font_size
            out == built.pre.font_size
        IN  /\ EqStr(raw, <<"1", "0", "p", "t">>) => out = PyFloat(FromInt(10))
            /\ EqStr(raw, Empty) => out = PyFloat(FromInt(7))
            /\ ~EqStr(raw, Empty) /\ ~(raw.t = "str" /\ Contains(raw.s, Pt)) => out = raw

\* The type tag names a member of EasyedaPinType, by name or by value.
IsPinType(v) ==
    v.t = "str" /\ \E member \in EasyedaPinType :
                       v.s = member.name \/ v.s = DecStr(member.value)

\* C10: every constructed pin settings record has a type tag of the closed
\* set unspecified, input, output, bidirectional, power.
C10_PinTypeClosed ==
    built.kind = "EeSymbolPinSettings" /\ built.ok => IsPinType(built.val.type)

====
